---- MODULE Spec2Model ----
(***************************************************************************)
(* A model of the didact-fiber reconciler (src/lib/component.js): the      *)
(* update queue, the idle-callback scheduler, the resumable fiber walk,    *)
(* the positional diff and the commit phase, over a heap of fibers, a heap *)
(* of component instances and a heap of host (DOM) nodes.                  *)
(***************************************************************************)
EXTENDS Integers, Sequences, FiniteSets, TLC

\* ------------------------------------------------------------------ bounds
\* how many render / setState calls a behaviour makes
MaxRequests == 3
\* the largest value deadline.timeRemaining() starts a callback with
MaxTime == 3
\* the number of callbacks of one walk that are told apart
MaxSlices == 3

\* --------------------------------------------------------------- constants
HOST_COMPONENT == "host"
CLASS_COMPONENT == "class"
HOST_ROOT == "root"

PLACEMENT == 1
DELETION == 2
UPDATE == 3

ENOUGH_TIME == 1

\* a pointer or field that is undefined (or null where only truthiness is read)
None == 0
\* the literal null, where the code compares with it strictly or stores it
JsNull == -1
\* the dom node render() is given as containerDom
Container == 1

NoType == ""
AttrKeys == {"title"}
StateKeys == {"x", "y"}
HostTypes == {"div", "span"}
ClassTypes == {"Outer", "Inner", "Pair", "Nil"}

\* typeof element.type === "string"
IsString(type) == type \in HostTypes

\* {} as a component state / a props object without attributes
EmptyObj(keys) == [k \in keys |-> None]
NoAttrs == EmptyObj(AttrKeys)
EmptyState == EmptyObj(StateKeys)

\* the partialState of a fiber or update that carries none;
\* rid is the identity of the object handed to setState (the request's number)
NoPartial == [rid |-> None, delta |-> EmptyState]
Truthy(partialState) == partialState.rid # None

\* ----------------------------------------------------------------- elements
\* what createElement returns: {type, props}, props.children always an array
Arr(els) == [kind |-> "arr", els |-> els]
One(el) == [kind |-> "one", el |-> el]
Nullish == [kind |-> "null"]

El(type, id, attrs, kids) ==
  [type |-> type, props |-> [id |-> id, attrs |-> attrs, children |-> Arr(kids)]]

Title(v) == [NoAttrs EXCEPT !["title"] = v]

\* arrify from ./utils: null/undefined -> [], an array -> itself, a value -> [value]
Arrify(val) ==
  CASE val.kind = "null" -> <<>>
    [] val.kind = "arr" -> val.els
    [] val.kind = "one" -> <<val.el>>

\* the element trees the caller of render() holds
spanC == El("span", 102, NoAttrs, <<>>)
divA == El("div", 101, Title(1), <<spanC>>)
spanB == El("span", 103, NoAttrs, <<>>)
divA2 == El("div", 104, Title(2), <<El("span", 105, NoAttrs, <<>>)>>)
spanD == El("span", 106, NoAttrs, <<>>)
outerE == El("Outer", 107, NoAttrs, <<>>)
pairE == El("Pair", 108, NoAttrs, <<>>)

RootInputs ==
  { Arr(<<>>),
    Arr(<<divA, spanB>>),
    Arr(<<divA2, spanB>>),
    Arr(<<spanD, spanB>>),
    One(divA),
    One(outerE),
    One(pairE) }

\* the objects setState is called with
Delta(k, v) == [rid |-> None, delta |-> [EmptyState EXCEPT ![k] = v]]
Deltas == { Delta("x", 1), Delta("x", 2), Delta("y", 1) }

\* Object.assign({}, state, partialState)
Merge(state, partialState) ==
  [k \in StateKeys |-> IF partialState.delta[k] # None THEN partialState.delta[k]
                       ELSE state[k]]

\* render() of the component classes; every call builds new element objects,
\* id is the identity of the first props object it creates. Outer and Inner
\* return one element, Pair returns an array of two, Nil returns null
RenderOf(type, state, id) ==
  CASE type = "Outer" ->
         IF state["x"] = 1 THEN One(El("div", id, Title(state["y"]), <<>>))
         ELSE One(El("Inner", id, NoAttrs, <<>>))
    [] type = "Inner" -> One(El("span", id, Title(state["x"]), <<>>))
    [] type = "Pair" -> Arr(<<El("Nil", id, NoAttrs, <<>>), El("span", id + 1, NoAttrs, <<>>)>>)
    [] OTHER -> Nullish

\* ------------------------------------------------------------------- state
VARIABLES
  fibers,        \* the heap of fiber objects, a fiber is its index
  insts,         \* the heap of component instances
  doms,          \* the heap of host nodes, doms[Container] is the container
  rootContainerFiber, \* containerDom.__rootContainerFiber
  updateQueue,
  nextUnitOfWork,
  pendingCommit,
  armed,         \* idle callbacks requested and not yet invoked
  nextObj,       \* the next fresh object identity for props built by render()
  requests,      \* every update enqueued so far, in order
  started,       \* the walks started: [req, root]
  committed,     \* the roots whose commitAllWork ran to its end
  classLog,      \* what updateClassComponent did in the walk last started
  mergeCount,    \* per request, how often its partialState was merged
  walkLog,       \* the fibers begun and completed in the walk last started, in order
  commitLog,     \* the root commitAllWork was last called with and what it applied
  predicted,     \* what the walk last started produces when it is not suspended
  slices,        \* the callbacks the walk last started has been given, up to MaxSlices
  err            \* the exception the last performWork ended with

vars == <<fibers, insts, doms, rootContainerFiber, updateQueue, nextUnitOfWork,
          pendingCommit, armed, nextObj, requests, started, committed, classLog,
          mergeCount, walkLog, commitLog, predicted, slices, err>>

NoProps == [id |-> None, attrs |-> NoAttrs, children |-> Nullish]

BlankFiber ==
  [tag |-> NoType, type |-> NoType, props |-> NoProps, stateNode |-> None,
   parent |-> None, child |-> None, sibling |-> None, alternate |-> None,
   effectTag |-> None, effects |-> <<>>, hasEffects |-> FALSE,
   partialState |-> NoPartial]

\* a host node: its attributes and its child nodes in order
BlankDom(type) == [type |-> type, attrs |-> NoAttrs, children |-> <<>>]

\* ------------------------------------------------------------ dom-utils
\* updateDomProperties on the attributes of its target: attributes that are gone
\* become null, attributes that are new or changed are assigned
updateDomProperties(attrs, prevProps, nextProps) ==
  [k \in AttrKeys |->
     IF nextProps.attrs[k] # None /\ prevProps.attrs[k] # nextProps.attrs[k]
     THEN nextProps.attrs[k]
     ELSE IF prevProps.attrs[k] # None /\ nextProps.attrs[k] = None
          THEN JsNull
          ELSE attrs[k]]

\* createDomElement: a detached node with the fiber's props applied to it
createDomElement(fiber) ==
  [BlankDom(fiber.type) EXCEPT !.attrs = updateDomProperties(@, NoProps, fiber.props)]

Remove(seq, x) == SelectSeq(seq, LAMBDA y : y # x)
Contains(seq, x) == \E i \in 1..Len(seq) : seq[i] = x

\* Node.appendChild: the node leaves the parent it has and becomes the last child
appendChild(ds, parent, child) ==
  LET detached == [d \in 1..Len(ds) |-> [ds[d] EXCEPT !.children = Remove(@, child)]]
  IN [detached EXCEPT ![parent].children = Append(@, child)]

\* Node.removeChild, for a node that is a child of parent
removeChild(ds, parent, child) ==
  [ds EXCEPT ![parent].children = Remove(@, child)]

\* ------------------------------------------------------- positional diff
\* a diff that takes every old fiber for one of the element's type
SameType_Always(elementType, oldType) == TRUE

\* element.type == oldFiber.type
SameType(elementType, oldType) == elementType = oldType

\* a diff that tags a reused fiber as if it were new
SameTypeEffect_Placement == PLACEMENT

\* the tag of the fiber built for an element whose type the old fiber has
SameTypeEffect == UPDATE

\* a diff that tags a new fiber as if it reused an old one
NewFiberEffect_Update == UPDATE

\* the tag of the fiber built for an element that has no old fiber of its type
NewFiberEffect == PLACEMENT

\* a loop that stops with the new elements and never sees the trailing old fibers
MoreToReconcile_ElementsOnly(index, length, oldFiber) == index < length

\* while (index < elements.length || oldFiber != null)
MoreToReconcile(index, length, oldFiber) == index < length \/ oldFiber # None

RECURSIVE ReconcileLoop(_, _, _, _, _, _)
ReconcileLoop(fs, wipFiber, elements, index, oldFiber, newFiber) ==
  IF ~MoreToReconcile(index, Len(elements), oldFiber) THEN fs
  ELSE
    LET prevFiber == newFiber
        hasElement == index < Len(elements)
        element == IF hasElement THEN elements[index + 1] ELSE El(NoType, None, NoAttrs, <<>>)
        sameType == oldFiber # None /\ hasElement /\ SameType(element.type, fs[oldFiber].type)
        fresh == Len(fs) + 1
        fs1 ==
          IF sameType
          THEN Append(fs, [BlankFiber EXCEPT
                 !.type = fs[oldFiber].type,
                 !.tag = fs[oldFiber].tag,
                 !.stateNode = fs[oldFiber].stateNode,
                 !.props = element.props,
                 !.parent = wipFiber,
                 !.alternate = oldFiber,
                 !.partialState = fs[oldFiber].partialState,
                 !.effectTag = SameTypeEffect])
          ELSE IF hasElement
          THEN Append(fs, [BlankFiber EXCEPT
                 !.type = element.type,
                 !.tag = IF IsString(element.type) THEN HOST_COMPONENT ELSE CLASS_COMPONENT,
                 !.props = element.props,
                 !.parent = wipFiber,
                 !.effectTag = NewFiberEffect])
          ELSE fs
        newFiber1 == IF hasElement THEN fresh ELSE newFiber
        fs2 ==
          IF oldFiber # None /\ ~sameType
          THEN [fs1 EXCEPT ![oldFiber].effectTag = DELETION,
                           ![wipFiber].effects = Append(@, oldFiber),
                           ![wipFiber].hasEffects = TRUE]
          ELSE fs1
        oldNext == IF oldFiber # None THEN fs[oldFiber].sibling ELSE oldFiber
        fs3 ==
          IF index = 0 THEN [fs2 EXCEPT ![wipFiber].child = newFiber1]
          ELSE IF prevFiber # None /\ hasElement
               THEN [fs2 EXCEPT ![prevFiber].sibling = newFiber1]
               ELSE fs2
    IN ReconcileLoop(fs3, wipFiber, elements, index + 1, oldNext, newFiber1)

reconcileChildrenArray(fs, wipFiber, newChildElements) ==
  ReconcileLoop(fs, wipFiber, Arrify(newChildElements), 0,
                IF fs[wipFiber].alternate # None THEN fs[fs[wipFiber].alternate].child
                ELSE None,
                None)

\* the tag a cloned child is given: cloneChildFibers sets none
ClonedEffect == None

RECURSIVE CloneLoop(_, _, _, _)
CloneLoop(fs, parentFiber, oldChild, prevChild) ==
  IF oldChild = None THEN fs
  ELSE
    LET newChild == Len(fs) + 1
        fs1 == Append(fs, [BlankFiber EXCEPT
                 !.type = fs[oldChild].type,
                 !.tag = fs[oldChild].tag,
                 !.stateNode = fs[oldChild].stateNode,
                 !.props = fs[oldChild].props,
                 !.partialState = fs[oldChild].partialState,
                 !.alternate = oldChild,
                 !.parent = parentFiber,
                 !.effectTag = ClonedEffect])
        fs2 == IF prevChild # None THEN [fs1 EXCEPT ![prevChild].sibling = newChild]
               ELSE [fs1 EXCEPT ![parentFiber].child = newChild]
    IN CloneLoop(fs2, parentFiber, fs[oldChild].sibling, newChild)

cloneChildFibers(fs, parentFiber) ==
  CloneLoop(fs, parentFiber, fs[fs[parentFiber].alternate].child, None)

\* ------------------------------------------------------------- beginWork
\* a world w is the mutable state the walk and the commit work on:
\* [fibers, insts, doms, nextObj, next, pendingCommit, rcf, committed,
\*  classLog, mergeCount, walkLog, commitLog, err]

updateHostComponent(w, wipFiber) ==
  LET made == w.fibers[wipFiber].stateNode = None
      w1 == IF made
            THEN [w EXCEPT !.doms = Append(@, createDomElement(w.fibers[wipFiber])),
                           !.fibers[wipFiber].stateNode = Len(w.doms) + 1]
            ELSE w
  IN [w1 EXCEPT !.fibers = reconcileChildrenArray(@, wipFiber,
                                                  w1.fibers[wipFiber].props.children)]

\* new fiber.type(fiber.props), and instance.__fiber = fiber
createInstance(fiber, wipFiber) ==
  [type |-> fiber.type, props |-> fiber.props, state |-> EmptyState,
   fiber |-> wipFiber, expando |-> NoAttrs]

\* a bail-out test with the props comparison inverted
BailOut_Inverted(fiber, instance) ==
  fiber.props.id # instance.props.id /\ ~Truthy(fiber.partialState)

\* wipFiber.props === instance.props && !wipFiber.partialState
BailOut(fiber, instance) ==
  fiber.props.id = instance.props.id /\ ~Truthy(fiber.partialState)

\* instance.state after the merge of the fiber's partialState
MergedState(instance, fiber) == Merge(instance.state, fiber.partialState)

updateClassComponent(w, wipFiber) ==
  LET fiber == w.fibers[wipFiber]
      mount == fiber.stateNode = None
      instance == IF mount THEN Len(w.insts) + 1 ELSE fiber.stateNode
      w1 == IF mount
            THEN [w EXCEPT !.insts = Append(@, createInstance(fiber, wipFiber)),
                           !.fibers[wipFiber].stateNode = instance]
            ELSE w
      old == w1.insts[instance]
      entry(rendered, state, elements) ==
        [fiber |-> wipFiber, instance |-> instance, mount |-> mount,
         sameProps |-> fiber.props.id = old.props.id,
         partial |-> fiber.partialState.rid,
         before |-> old.state, rendered |-> rendered, state |-> state,
         elements |-> elements]
  IN IF ~mount /\ BailOut(fiber, old)
     THEN [w1 EXCEPT !.fibers = cloneChildFibers(@, wipFiber),
                     !.classLog = Append(@, entry(FALSE, old.state, Nullish))]
     ELSE
       LET state == MergedState(old, fiber)
           rid == fiber.partialState.rid
           newChildElements == RenderOf(fiber.type, state, w1.nextObj)
           w2 == [w1 EXCEPT !.insts[instance].props = fiber.props,
                            !.insts[instance].state = state,
                            !.fibers[wipFiber].partialState = NoPartial,
                            !.nextObj = @ + 2,
                            !.mergeCount = IF rid # None THEN [@ EXCEPT ![rid] = @ + 1]
                                           ELSE @,
                            !.classLog = Append(@, entry(TRUE, state, newChildElements))]
       IN [w2 EXCEPT !.fibers = reconcileChildrenArray(@, wipFiber, newChildElements)]

beginWork(w, wipFiber) ==
  IF w.fibers[wipFiber].tag = CLASS_COMPONENT
  THEN updateClassComponent(w, wipFiber)
  ELSE updateHostComponent(w, wipFiber)

\* ---------------------------------------------------------- completeWork
\* fiber.effectTag !== null
HasEffectTag(effectTag) == effectTag # JsNull

\* a concat that puts the fiber before its children and the parent's effects last
ConcatEffects_Reversed(parentEffects, childEffects, thisEffect) ==
  thisEffect \o childEffects \o parentEffects

\* parentEffects.concat(childEffects, thisEffect)
ConcatEffects(parentEffects, childEffects, thisEffect) ==
  parentEffects \o childEffects \o thisEffect

completeWork(w, fiber) ==
  LET f == w.fibers[fiber]
      w1 == IF f.tag = CLASS_COMPONENT
            THEN [w EXCEPT !.insts[f.stateNode].fiber = fiber]
            ELSE w
  IN IF f.parent # None
     THEN LET thisEffect == IF HasEffectTag(f.effectTag) THEN <<fiber>> ELSE <<>>
          IN [w1 EXCEPT !.fibers[f.parent].effects = ConcatEffects(@, f.effects, thisEffect),
                        !.fibers[f.parent].hasEffects = TRUE]
     ELSE [w1 EXCEPT !.pendingCommit = fiber]

\* the loop of performUnitOfWork that completes fibers up to one with a sibling
RECURSIVE CompleteUp(_, _)
CompleteUp(w, unitOfWork) ==
  IF unitOfWork = None THEN [w EXCEPT !.next = None]
  ELSE LET completed(w1, next) ==
             [w1 EXCEPT !.walkLog = Append(@, [op |-> "complete", fiber |-> unitOfWork,
                                               next |-> next,
                                               pendingCommit |-> w1.pendingCommit])]
           onward(w1) ==
             IF w1.fibers[unitOfWork].sibling # None
             THEN [completed(w1, w1.fibers[unitOfWork].sibling)
                     EXCEPT !.next = w1.fibers[unitOfWork].sibling]
             ELSE CompleteUp(completed(w1, w1.fibers[unitOfWork].parent),
                             w1.fibers[unitOfWork].parent)
       IN onward(completeWork(w, unitOfWork))

\* a walk that never descends to the children a fiber was given
DescendsTo_Never(fs, wipFiber) == None

\* if (wipFiber.child) return wipFiber.child
DescendsTo(fs, wipFiber) == fs[wipFiber].child

\* nextUnitOfWork = performUnitOfWork(nextUnitOfWork)
performUnitOfWork(w, wipFiber) ==
  LET begun(w1) ==
        [w1 EXCEPT !.walkLog = Append(@, [op |-> "begin", fiber |-> wipFiber,
                                          next |-> DescendsTo(w1.fibers, wipFiber),
                                          pendingCommit |-> w1.pendingCommit])]
      onward(w1) ==
        IF DescendsTo(w1.fibers, wipFiber) # None
        THEN [w1 EXCEPT !.next = DescendsTo(w1.fibers, wipFiber)]
        ELSE CompleteUp(w1, wipFiber)
  IN onward(begun(beginWork(w, wipFiber)))

\* ----------------------------------------------------------- commit phase
\* the first parent that is not a class component
RECURSIVE DomParentFiber(_, _)
DomParentFiber(fs, domParentFiber) ==
  IF fs[domParentFiber].tag = CLASS_COMPONENT
  THEN DomParentFiber(fs, fs[domParentFiber].parent)
  ELSE domParentFiber

\* the inner loop of commitDeletion: up to the deleted fiber or to a node with a sibling
RECURSIVE ClimbToSibling(_, _, _)
ClimbToSibling(fs, fiber, node) ==
  IF node # fiber /\ fs[node].sibling = None
  THEN ClimbToSibling(fs, fiber, fs[node].parent)
  ELSE node

RECURSIVE DeletionLoop(_, _, _, _)
DeletionLoop(w, fiber, domParent, node) ==
  IF node = None THEN w
  ELSE IF w.fibers[node].tag = CLASS_COMPONENT
  THEN DeletionLoop(w, fiber, domParent, w.fibers[node].child)
  ELSE IF ~Contains(w.doms[domParent].children, w.fibers[node].stateNode)
  THEN [w EXCEPT !.err = "NotFoundError"]
  ELSE LET w1 == [w EXCEPT !.doms = removeChild(@, domParent, w.fibers[node].stateNode)]
           up == ClimbToSibling(w.fibers, fiber, node)
       IN IF up = fiber THEN w1
          ELSE DeletionLoop(w1, fiber, domParent, w.fibers[up].sibling)

commitDeletion(w, fiber, domParent) == DeletionLoop(w, fiber, domParent, fiber)

commitWork(w, fiber) ==
  LET f == w.fibers[fiber]
      domParent == w.fibers[DomParentFiber(w.fibers, f.parent)].stateNode
      applied(call) == [fiber |-> fiber, call |-> call]
  IN IF f.tag = HOST_ROOT THEN w
     ELSE IF f.effectTag = PLACEMENT /\ f.tag = HOST_COMPONENT
     THEN [w EXCEPT !.doms = appendChild(@, domParent, f.stateNode),
                    !.commitLog.applied = Append(@, applied("appendChild"))]
     ELSE IF f.effectTag = UPDATE
     THEN IF f.tag = CLASS_COMPONENT
          THEN [w EXCEPT !.insts[f.stateNode].expando =
                           updateDomProperties(@, w.fibers[f.alternate].props, f.props),
                         !.commitLog.applied = Append(@, applied("updateDomProperties"))]
          ELSE [w EXCEPT !.doms[f.stateNode].attrs =
                           updateDomProperties(@, w.fibers[f.alternate].props, f.props),
                         !.commitLog.applied = Append(@, applied("updateDomProperties"))]
     ELSE IF f.effectTag = DELETION
     THEN commitDeletion([w EXCEPT !.commitLog.applied = Append(@, applied("commitDeletion"))],
                         fiber, domParent)
     ELSE [w EXCEPT !.commitLog.applied = Append(@, applied("none"))]

\* fiber.effects.forEach(commitWork), given up at the first exception
RECURSIVE CommitEffects(_, _, _)
CommitEffects(w, effects, i) ==
  IF i > Len(effects) \/ w.err # "none" THEN w
  ELSE CommitEffects(commitWork(w, effects[i]), effects, i + 1)

commitAllWork(w, fiber) ==
  IF ~w.fibers[fiber].hasEffects
  THEN [w EXCEPT !.err = "TypeError", !.commitLog = [root |-> fiber, applied |-> <<>>]]
  ELSE LET done(w1) ==
             IF w1.err # "none" THEN w1
             ELSE [w1 EXCEPT !.rcf = fiber, !.next = None, !.pendingCommit = None,
                             !.committed = Append(@, fiber)]
       IN done(CommitEffects([w EXCEPT !.commitLog = [root |-> fiber, applied |-> <<>>]],
                             w.fibers[fiber].effects, 1))

\* --------------------------------------------------------------- scheduler
RECURSIVE getRoot(_, _)
getRoot(fs, node) ==
  IF fs[node].parent # None THEN getRoot(fs, fs[node].parent) ELSE node

\* resetNextUnitOfWork for the update shifted off the queue
resetNextUnitOfWork(w, update) ==
  LET target == IF update.instance # None THEN w.insts[update.instance].fiber ELSE None
      fs1 == IF Truthy(update.partialState)
             THEN [w.fibers EXCEPT ![target].partialState = update.partialState]
             ELSE w.fibers
      root == IF update.from = HOST_ROOT THEN w.rcf ELSE getRoot(fs1, target)
      wipRoot == [BlankFiber EXCEPT
                    !.tag = HOST_ROOT,
                    !.stateNode = IF update.dom # None THEN update.dom
                                  ELSE fs1[root].stateNode,
                    !.props = IF update.newProps.id # None THEN update.newProps
                              ELSE fs1[root].props,
                    !.alternate = root]
  IN [w EXCEPT !.fibers = Append(fs1, wipRoot), !.next = Len(fs1) + 1]

\* deadline.timeRemaining(), when the callback began with time and each unit took one
TimeRemaining(time, units) == time - units

\* the while loop of workLoop
RECURSIVE WorkUnits(_, _, _)
WorkUnits(w, time, units) ==
  IF w.next # None /\ TimeRemaining(time, units) > ENOUGH_TIME
  THEN WorkUnits(performUnitOfWork(w, w.next), time, units + 1)
  ELSE w

\* a loop that forgets where the walk stopped when it runs out of time
workLoop_ForgetsOnYield(w, time) ==
  LET yielded(w1) == IF w1.next # None THEN [w1 EXCEPT !.next = None] ELSE w1
  IN yielded(WorkUnits(w, time, 0))

workLoop(w, time) ==
  LET commitPending(w1) ==
        IF w1.pendingCommit # None THEN commitAllWork(w1, w1.pendingCommit) ELSE w1
  IN commitPending(WorkUnits(w, time, 0))

\* the walk run to its end without a suspension, and the commit that follows
RECURSIVE RunToCompletion(_)
RunToCompletion(w) ==
  IF w.next # None THEN RunToCompletion(performUnitOfWork(w, w.next))
  ELSE IF w.pendingCommit # None THEN commitAllWork(w, w.pendingCommit)
  ELSE w

\* the host tree below a host node: types, attributes and child order
RECURSIVE HostTree(_, _)
HostTree(ds, d) ==
  [type |-> ds[d].type, attrs |-> ds[d].attrs,
   children |-> [i \in 1..Len(ds[d].children) |-> HostTree(ds, ds[d].children[i])]]

\* what a walk from root has produced in the world w
OutcomeOf(w, root) ==
  [effects |-> w.fibers[root].effects, fibers |-> w.fibers, insts |-> w.insts,
   host |-> HostTree(w.doms, Container), current |-> w.rcf, committed |-> w.committed]

\* ------------------------------------------------------------------ actions
Init ==
  /\ fibers = <<>>
  /\ insts = <<>>
  /\ doms = <<BlankDom("container")>>
  /\ rootContainerFiber = None
  /\ updateQueue = <<>>
  /\ nextUnitOfWork = None
  /\ pendingCommit = None
  /\ armed = 0
  /\ nextObj = 1
  /\ requests = <<>>
  /\ started = <<>>
  /\ committed = <<>>
  /\ classLog = <<>>
  /\ mergeCount = <<>>
  /\ walkLog = <<>>
  /\ commitLog = [root |-> None, applied |-> <<>>]
  /\ predicted = <<>>
  /\ slices = 0
  /\ err = "none"

RootProps(elements) == [id |-> 100, attrs |-> NoAttrs, children |-> elements]

\* updateQueue.push(update); requestIdleCallback(performWork)
Enqueued(update) ==
  /\ updateQueue' = Append(updateQueue, update)
  /\ requests' = Append(requests, update)
  /\ mergeCount' = Append(mergeCount, 0)
  /\ armed' = armed + 1
  /\ UNCHANGED <<fibers, insts, doms, rootContainerFiber, nextUnitOfWork,
                 pendingCommit, nextObj, started, committed, classLog, walkLog,
                 commitLog, predicted, slices, err>>

\* render(elements, containerDom)
Render(elements) ==
  /\ Len(requests) < MaxRequests
  /\ Enqueued([from |-> HOST_ROOT, dom |-> Container, newProps |-> RootProps(elements),
               instance |-> None, partialState |-> NoPartial])

\* scheduleUpdate(instance, partialState), partialState an object or null
ScheduleUpdate(instance, partialState) ==
  /\ Len(requests) < MaxRequests
  /\ Enqueued([from |-> CLASS_COMPONENT, dom |-> None, newProps |-> NoProps,
               instance |-> instance,
               partialState |-> IF partialState = NoPartial THEN NoPartial
                                ELSE [partialState EXCEPT !.rid = Len(requests) + 1]])

\* performWork(deadline), an idle callback
PerformWork(time) ==
  /\ armed > 0
  /\ LET pop == nextUnitOfWork = None /\ updateQueue # <<>>
         w0 == [fibers |-> fibers, insts |-> insts, doms |-> doms, nextObj |-> nextObj,
                next |-> nextUnitOfWork, pendingCommit |-> pendingCommit,
                rcf |-> rootContainerFiber, committed |-> committed,
                classLog |-> IF pop THEN <<>> ELSE classLog,
                mergeCount |-> mergeCount,
                walkLog |-> IF pop THEN <<>> ELSE walkLog,
                commitLog |-> commitLog, err |-> "none"]
         queue == IF pop THEN Tail(updateQueue) ELSE updateQueue
         \* what the callback leaves behind: w1 after the reset, w2 after workLoop
         leave(w1, w2) ==
           LET rearm == w2.err = "none" /\ (w2.next # None \/ Len(queue) > 0)
           IN /\ fibers' = w2.fibers
              /\ insts' = w2.insts
              /\ doms' = w2.doms
              /\ nextObj' = w2.nextObj
              /\ nextUnitOfWork' = w2.next
              /\ pendingCommit' = w2.pendingCommit
              /\ rootContainerFiber' = w2.rcf
              /\ committed' = w2.committed
              /\ classLog' = w2.classLog
              /\ mergeCount' = w2.mergeCount
              /\ walkLog' = w2.walkLog
              /\ commitLog' = w2.commitLog
              /\ predicted' = IF pop THEN OutcomeOf(RunToCompletion(w1), w1.next)
                              ELSE predicted
              /\ slices' = IF pop THEN 1
                           ELSE IF nextUnitOfWork # None /\ slices < MaxSlices
                                THEN slices + 1
                                ELSE slices
              /\ err' = w2.err
              /\ updateQueue' = queue
              /\ started' = IF pop
                            THEN Append(started,
                                        [req |-> Len(requests) - Len(updateQueue) + 1,
                                         root |-> w1.next])
                            ELSE started
              /\ armed' = IF rearm THEN armed ELSE armed - 1
              /\ UNCHANGED requests
         run(w1) == leave(w1, workLoop(w1, time))
     IN run(IF pop THEN resetNextUnitOfWork(w0, Head(updateQueue)) ELSE w0)

Next ==
  \/ \E elements \in RootInputs : Render(elements)
  \/ \E instance \in 1..Len(insts), partialState \in Deltas \cup {NoPartial} :
       ScheduleUpdate(instance, partialState)
  \/ \E time \in 0..MaxTime : PerformWork(time)

Spec == Init /\ [][Next]_vars

\* ------------------------------------------------- reading the heaps
Last(seq) == seq[Len(seq)]

\* the fibers of a child/sibling chain, in order
RECURSIVE Chain(_, _)
Chain(fs, first) ==
  IF first = None THEN <<>> ELSE <<first>> \o Chain(fs, fs[first].sibling)

Range(seq) == {seq[i] : i \in 1..Len(seq)}

\* a fiber and everything below it
RECURSIVE Subtree(_, _)
Subtree(fs, fiber) ==
  {fiber} \cup UNION {Subtree(fs, c) : c \in Range(Chain(fs, fs[fiber].child))}

\* the host nodes an element sequence builds when it is rendered on its own
RECURSIVE HostOfElements(_, _)
HostOfElements(elements, i) ==
  IF i > Len(elements) THEN <<>>
  ELSE LET element == elements[i]
           here == IF IsString(element.type)
                   THEN << [type |-> element.type,
                            attrs |-> updateDomProperties(NoAttrs, NoProps, element.props),
                            children |-> HostOfElements(Arrify(element.props.children), 1)] >>
                   ELSE HostOfElements(Arrify(RenderOf(element.type, EmptyState, None)), 1)
       IN here \o HostOfElements(elements, i + 1)

ContainerChildren == HostTree(doms, Container).children

\* the root of the walk last started, its request, and whether that walk has finished
LastRoot == Last(started).root
LastRequest == requests[Last(started).req]
IsCommitted(root) == Contains(committed, root)
WalkDone ==
  /\ started # <<>>
  /\ nextUnitOfWork = None
  /\ (pendingCommit = LastRoot \/ IsCommitted(LastRoot))

\* the effect list of the walk last finished, and how often a fiber is in it
WalkEffects == fibers[LastRoot].effects
Occurrences(seq, x) == Cardinality({i \in 1..Len(seq) : seq[i] = x})
Tagged(tag) == {i \in 1..Len(WalkEffects) : fibers[WalkEffects[i]].effectTag = tag}

\* ------------------------------------------------------------------ claims

\* C1: after render(A), commit, render(B), commit the host tree under the
\* container equals the host tree that rendering B alone builds.
C1_SequentialRenderEqualsDirect ==
  ( /\ Len(requests) = 2
    /\ requests[1].from = HOST_ROOT
    /\ requests[2].from = HOST_ROOT
    /\ Len(committed) = 2 )
  => ContainerChildren = HostOfElements(Arrify(requests[2].newProps.children), 1)

\* C2: requests are consumed in FIFO order, each starts exactly one walk, and a
\* walk is committed before the walk of the next request is started.
C2_StrictFifo ==
  /\ \A i \in 1..Len(started) : started[i].req = i
  /\ \A i \in 1..(Len(started) - 1) : IsCommitted(started[i].root)
  /\ Len(started) + Len(updateQueue) = Len(requests)

\* C3: a request enqueued while a walk is in progress only lengthens the queue and
\* leaves the walk untouched, and no entry is popped until that walk is committed.
C3_NoInterruption ==
  [][ /\ (nextUnitOfWork # None /\ requests' # requests)
         => /\ updateQueue' = Append(updateQueue, Last(requests'))
            /\ UNCHANGED <<fibers, nextUnitOfWork, pendingCommit, started>>
      /\ (nextUnitOfWork # None) => Len(started') = Len(started)
      /\ (started' # started) => \A i \in 1..Len(started) : IsCommitted(started[i].root)
    ]_vars

\* C4: when a walk is in progress or the queue is non-empty a callback is armed,
\* and once no callback is armed every request has been committed and the
\* scheduler is idle: empty queue, no walk, no pending commit.
C4_AllCommittedThenIdle ==
  /\ (nextUnitOfWork # None \/ updateQueue # <<>>) => armed > 0
  /\ armed = 0 => /\ updateQueue = <<>>
                  /\ nextUnitOfWork = None
                  /\ pendingCommit = None
                  /\ Len(committed) = Len(requests)

\* C5: the host tree changes only in a callback that commits a whole walk, and
\* whenever the scheduler yields there is no pending commit.
C5_CommitAtomic ==
  [][ /\ (HostTree(doms', Container) # HostTree(doms, Container))
         => Len(committed') = Len(committed) + 1
      /\ pendingCommit' = None
    ]_vars

\* --------------------------------------------- the walk last finished
\* the new element sequence has, position by position and below host elements,
\* the types of the old child chain
RECURSIVE SameShape(_, _, _)
SameShape(fs, elements, oldFirst) ==
  LET old == Chain(fs, oldFirst)
  IN /\ Len(elements) = Len(old)
     /\ \A i \in 1..Len(elements) :
          /\ elements[i].type = fs[old[i]].type
          /\ IsString(elements[i].type)
               => SameShape(fs, Arrify(elements[i].props.children), fs[old[i]].child)

\* the fibers of the work-in-progress tree below its root
WipFibers == Subtree(fibers, LastRoot) \ {LastRoot}

\* the work-in-progress fibers that diff element sequences held in their props
DiffParents ==
  {p \in Subtree(fibers, LastRoot) :
     fibers[p].tag # CLASS_COMPONENT /\ fibers[p].alternate # None}
NewElements(p) == Arrify(fibers[p].props.children)
OldChain(p) == Chain(fibers, fibers[fibers[p].alternate].child)
NewChain(p) == Chain(fibers, fibers[p].child)
EffectsWith(p, tag) == {e \in Range(fibers[p].effects) : fibers[e].effectTag = tag}
OnceIn(p, fiber) == Occurrences(fibers[p].effects, fiber) = 1

\* updateClassComponent took the clone branch for the fiber in the walk last started
BailedOut(fiber) ==
  \E k \in 1..Len(classLog) : classLog[k].fiber = fiber /\ ~classLog[k].rendered
Cloned(fiber) == BailedOut(fibers[fiber].parent)

SameProps(fiber) ==
  /\ fibers[fiber].alternate # None
  /\ fibers[fiber].props.id = fibers[fibers[fiber].alternate].props.id

\* a render request whose elements have the types of the committed tree everywhere
Rerender ==
  /\ WalkDone
  /\ LastRequest.from = HOST_ROOT
  /\ fibers[LastRoot].alternate # None
  /\ SameShape(fibers, NewElements(LastRoot), fibers[fibers[LastRoot].alternate].child)

\* C6 as claimed: a re-render with the same types yields no Placement and no
\* Deletion, no effect on a host node whose props are unchanged, and exactly one
\* Update on each node whose props object differs.
C6_RerenderTouchesOnlyChangedProps ==
  Rerender =>
    /\ Tagged(PLACEMENT) = {} /\ Tagged(DELETION) = {}
    /\ \A f \in WipFibers :
         /\ (fibers[f].tag = HOST_COMPONENT /\ SameProps(f))
              => fibers[f].effectTag = None
         /\ ~SameProps(f)
              => fibers[f].effectTag = UPDATE /\ Occurrences(WalkEffects, f) = 1

\* C6 as the code has it: a re-render with the same types yields no Placement and
\* no Deletion; every fiber the positional diff builds carries exactly one Update,
\* whether its props object differs or not, and only the children cloned under a
\* bailed-out component carry no effect tag.
C6_RerenderUpdatesEveryDiffedNode ==
  Rerender =>
    /\ Tagged(PLACEMENT) = {} /\ Tagged(DELETION) = {}
    /\ \A f \in WipFibers :
         /\ Occurrences(WalkEffects, f) = 1
         /\ fibers[f].effectTag = IF Cloned(f) THEN None ELSE UPDATE

C6_Witness ==
  /\ Rerender
  /\ IsCommitted(LastRoot)
  /\ \E f \in WipFibers :
       fibers[f].tag = HOST_COMPONENT /\ SameProps(f) /\ fibers[f].effectTag = UPDATE
  /\ \E f \in WipFibers :
       fibers[f].tag = HOST_COMPONENT /\ ~SameProps(f) /\ fibers[f].effectTag = UPDATE

\* the new elements of p differ from its old children only in the type at i
TypeChangedAt(p, i) ==
  LET els == NewElements(p)
      old == OldChain(p)
  IN /\ Len(els) = Len(old)
     /\ i \in 1..Len(els)
     /\ els[i].type # fibers[old[i]].type
     /\ \A j \in 1..Len(els) : j # i =>
          /\ els[j].type = fibers[old[j]].type
          /\ IsString(els[j].type)
               => SameShape(fibers, Arrify(els[j].props.children), fibers[old[j]].child)

SiblingsKept(p, i) ==
  \A j \in 1..Len(NewChain(p)) : j # i =>
    LET new == NewChain(p)[j]
        old == OldChain(p)[j]
    IN /\ fibers[new].alternate = old
       /\ fibers[new].stateNode = fibers[old].stateNode
       /\ fibers[new].effectTag \notin {PLACEMENT, DELETION}

\* C7 as claimed: a type change at position i yields exactly one Deletion (the
\* old fiber at i) and exactly one Placement (the new fiber at i), and leaves
\* the siblings alone.
C7_TypeChangeOneDeletionOnePlacement ==
  WalkDone =>
    \A p \in DiffParents : \A i \in 1..Len(NewElements(p)) :
      TypeChangedAt(p, i) =>
        /\ EffectsWith(p, DELETION) = {OldChain(p)[i]}
        /\ OnceIn(p, OldChain(p)[i])
        /\ EffectsWith(p, PLACEMENT) = {NewChain(p)[i]}
        /\ OnceIn(p, NewChain(p)[i])
        /\ SiblingsKept(p, i)

\* C7 as the code has it: a type change at position i yields exactly one Deletion
\* (the old fiber at i) and one Placement for the new fiber at i and for each
\* fiber below it, and leaves the siblings alone.
C7_TypeChangeDeletesOnePlacesSubtree ==
  WalkDone =>
    \A p \in DiffParents : \A i \in 1..Len(NewElements(p)) :
      TypeChangedAt(p, i) =>
        /\ EffectsWith(p, DELETION) = {OldChain(p)[i]}
        /\ OnceIn(p, OldChain(p)[i])
        /\ Len(NewChain(p)) = Len(NewElements(p))
        /\ EffectsWith(p, PLACEMENT) = Subtree(fibers, NewChain(p)[i])
        /\ \A f \in Subtree(fibers, NewChain(p)[i]) : OnceIn(p, f)
        /\ SiblingsKept(p, i)

C7_Witness ==
  /\ WalkDone
  /\ IsCommitted(LastRoot)
  /\ \E i \in 1..Len(NewElements(LastRoot)) :
       /\ LastRoot \in DiffParents
       /\ TypeChangedAt(LastRoot, i)
       /\ Len(NewElements(LastRoot)) > 1
       /\ Cardinality(EffectsWith(LastRoot, PLACEMENT)) > 1

\* the new elements of p are the first m of its n old children, types and props kept
ShrunkTo(p, m) ==
  LET els == NewElements(p)
      old == OldChain(p)
  IN /\ m = Len(els)
     /\ m < Len(old)
     /\ \A j \in 1..m : /\ els[j].type = fibers[old[j]].type
                        /\ els[j].props.id = fibers[old[j]].props.id

TrailingDeleted(p, m) ==
  /\ EffectsWith(p, DELETION) = {OldChain(p)[j] : j \in (m + 1)..Len(OldChain(p))}
  /\ Cardinality(EffectsWith(p, DELETION)) = Len(OldChain(p)) - m
  /\ \A j \in (m + 1)..Len(OldChain(p)) : OnceIn(p, OldChain(p)[j])
  /\ Len(NewChain(p)) = m

\* C8 as claimed: shrinking from n to m children yields exactly n - m Deletions,
\* for the trailing old fibers, a chain of m fibers, and no effects for the m
\* retained positions.
C8_ShrinkDeletesTailNoOtherEffects ==
  WalkDone =>
    \A p \in DiffParents : \A m \in 0..Len(NewElements(p)) :
      ShrunkTo(p, m) =>
        /\ TrailingDeleted(p, m)
        /\ \A j \in 1..m : fibers[NewChain(p)[j]].effectTag = None

\* C8 as the code has it: shrinking from n to m children yields exactly n - m
\* Deletions, for the trailing old fibers, and a chain of m fibers; each retained
\* position carries one Update, never a Placement or a Deletion.
C8_ShrinkDeletesTailUpdatesRest ==
  WalkDone =>
    \A p \in DiffParents : \A m \in 0..Len(NewElements(p)) :
      ShrunkTo(p, m) =>
        /\ TrailingDeleted(p, m)
        /\ \A j \in 1..m :
             /\ fibers[NewChain(p)[j]].effectTag = UPDATE
             /\ fibers[NewChain(p)[j]].alternate = OldChain(p)[j]
             /\ OnceIn(p, NewChain(p)[j])

C8_Witness ==
  /\ WalkDone
  /\ IsCommitted(LastRoot)
  /\ LastRoot \in DiffParents
  /\ ShrunkTo(LastRoot, 1)
  /\ Len(OldChain(LastRoot)) = 2
  /\ fibers[NewChain(LastRoot)[1]].effectTag = UPDATE

\* the class fibers of the walk that met an instance with reference-identical
\* props and no pending partialState
BailOutCases ==
  {k \in 1..Len(classLog) :
     ~classLog[k].mount /\ classLog[k].sameProps /\ classLog[k].partial = None}

\* C9 as claimed: such a fiber does not re-invoke render() and contributes no
\* Update, Placement or Deletion effect, neither for itself nor for its subtree.
C9_BailOutContributesNoEffects ==
  WalkDone =>
    \A k \in BailOutCases :
      LET f == classLog[k].fiber
      IN /\ ~classLog[k].rendered
         /\ \A g \in Range(fibers[f].effects) \cup {f} :
              fibers[g].effectTag \notin {PLACEMENT, UPDATE, DELETION}

\* C9 as the code has it: such a fiber does not re-invoke render() and keeps the
\* instance state; its children are clones of the previous generation's children
\* (same type, props and stateNode) that carry no effect tag, none of the old
\* children is deleted, and the fiber itself is neither placed nor deleted.
C9_BailOutClonesChildren ==
  WalkDone =>
    \A k \in BailOutCases :
      LET f == classLog[k].fiber
          new == Chain(fibers, fibers[f].child)
          old == Chain(fibers, fibers[fibers[f].alternate].child)
      IN /\ ~classLog[k].rendered
         /\ classLog[k].state = classLog[k].before
         /\ fibers[f].effectTag \notin {PLACEMENT, DELETION}
         /\ Len(new) = Len(old)
         /\ \A j \in 1..Len(new) :
              /\ fibers[new[j]].alternate = old[j]
              /\ fibers[new[j]].type = fibers[old[j]].type
              /\ fibers[new[j]].props = fibers[old[j]].props
              /\ fibers[new[j]].stateNode = fibers[old[j]].stateNode
              /\ fibers[new[j]].effectTag = None
              /\ ~Contains(fibers[f].effects, old[j])

C9_Witness ==
  /\ WalkDone
  /\ IsCommitted(LastRoot)
  /\ \E k \in BailOutCases :
       /\ fibers[classLog[k].fiber].effectTag = UPDATE
       /\ fibers[classLog[k].fiber].child # None
       /\ Contains(WalkEffects, classLog[k].fiber)

\* the root that was current when the walk last started was begun
RootBefore ==
  IF IsCommitted(LastRoot)
  THEN IF Len(committed) > 1 THEN committed[Len(committed) - 1] ELSE None
  ELSE IF committed # <<>> THEN Last(committed) ELSE None

\* the walk last started is for a state update of an instance of the current tree
UpdateOfMounted ==
  /\ WalkDone
  /\ LastRequest.from = CLASS_COMPONENT
  /\ RootBefore # None
  /\ fibers[LastRoot].alternate = RootBefore

\* C10: the walk of a state update on a mounted instance keeps the instance (its
\* fiber is neither placed nor deleted), calls render() with the previous state
\* merged with the request's partialState and clears the fiber's partialState;
\* every delta is merged exactly once.
C10_StateUpdateMergedOnce ==
  /\ \A r \in 1..Len(mergeCount) : mergeCount[r] <= 1
  /\ UpdateOfMounted =>
       LET i == LastRequest.instance
           f == insts[i].fiber
           rid == LastRequest.partialState.rid
       IN /\ getRoot(fibers, f) = LastRoot
          /\ fibers[f].stateNode = i
          /\ fibers[f].effectTag \notin {PLACEMENT, DELETION}
          /\ fibers[f].partialState = NoPartial
          /\ Truthy(LastRequest.partialState) =>
               /\ mergeCount[rid] = 1
               /\ \E k \in 1..Len(classLog) :
                    /\ classLog[k].instance = i
                    /\ classLog[k].rendered
                    /\ classLog[k].partial = rid
                    /\ classLog[k].state = Merge(classLog[k].before, LastRequest.partialState)
                    /\ insts[i].state = classLog[k].state

\* ------------------------------------------- requests on stale instances
\* no walk is under way and the fiber the instance points to is not in the
\* current tree: the instance was unmounted by a committed Deletion
Unmounted(i) ==
  /\ rootContainerFiber # None
  /\ nextUnitOfWork = None
  /\ pendingCommit = None
  /\ insts[i].fiber \notin Subtree(fibers, rootContainerFiber)

\* C11: a state-update request for an instance with no owning fiber in the
\* current tree is rejected: the update queue, the trees and the host target stay
\* as they are, and no walk is ever started for such a request.
C11_UnmountedUpdateRejected ==
  [][ /\ \A i \in 1..Len(insts) :
           ( /\ Unmounted(i)
             /\ requests' # requests
             /\ Last(requests').from = CLASS_COMPONENT
             /\ Last(requests').instance = i )
           => UNCHANGED <<updateQueue, fibers, doms, rootContainerFiber, started>>
      /\ \A i \in 1..Len(insts) :
           ( /\ Unmounted(i)
             /\ started' # started
             /\ requests[Last(started').req].from = CLASS_COMPONENT )
           => requests[Last(started').req].instance # i
    ]_vars

\* C12: whenever a walk is started, the alternate of the new work-in-progress
\* root is the root most recently committed into the container (none before the
\* first commit), never the root of a superseded generation.
C12_WalkStartsFromCurrentTree ==
  [][ started' # started
        => fibers'[Last(started').root].alternate = rootContainerFiber
    ]_vars

\* ------------------------------------------------------ the order of a walk
\* where in the log of the walk last started a fiber was begun / completed
PosOf(op, fiber) ==
  {k \in 1..Len(walkLog) : walkLog[k].op = op /\ walkLog[k].fiber = fiber}
Begun(fiber) == PosOf("begin", fiber) # {}
Completed(fiber) == PosOf("complete", fiber) # {}
At(op, fiber) == CHOOSE k \in PosOf(op, fiber) : TRUE

\* the work-in-progress tree of the walk last started
WipTree == Subtree(fibers, LastRoot)

\* C13: the walk is depth first. Every fiber of the work-in-progress tree is begun
\* at most once and completed at most once, and exactly once when the walk has
\* finished; a fiber is begun after its parent and completed after its children;
\* a sibling is begun after the fiber before it is completed; the walk finishes
\* exactly when the parentless root is completed, with nextUnitOfWork none and
\* pendingCommit that root; the walk takes one unit per fiber of the tree.
C13_WalkIsDepthFirst ==
  started # <<>> =>
    /\ \A k \in 1..Len(walkLog) : walkLog[k].fiber \in WipTree
    /\ \A f \in WipTree :
         /\ Cardinality(PosOf("begin", f)) <= 1
         /\ Cardinality(PosOf("complete", f)) <= 1
         /\ Completed(f) => Begun(f) /\ At("begin", f) < At("complete", f)
         /\ (Begun(f) /\ f # LastRoot)
              => Begun(fibers[f].parent) /\ At("begin", fibers[f].parent) < At("begin", f)
         /\ Completed(f)
              => \A c \in Range(Chain(fibers, fibers[f].child)) :
                    Completed(c) /\ At("complete", c) < At("complete", f)
         /\ (fibers[f].sibling # None /\ Begun(fibers[f].sibling))
              => Completed(f) /\ At("complete", f) < At("begin", fibers[f].sibling)
    /\ \A k \in 1..Len(walkLog) :
         walkLog[k].op = "complete" =>
           /\ walkLog[k].next = None <=> walkLog[k].fiber = LastRoot
           /\ walkLog[k].fiber = LastRoot
                => /\ fibers[LastRoot].parent = None
                   /\ walkLog[k].pendingCommit = LastRoot
                   /\ k = Len(walkLog)
    /\ nextUnitOfWork = None <=> Completed(LastRoot)
    /\ Completed(LastRoot) => \A f \in WipTree : Begun(f) /\ Completed(f)
    /\ Len(walkLog) <= 2 * Cardinality(WipTree)

C13_Witness ==
  /\ started # <<>>
  /\ nextUnitOfWork = None
  /\ Completed(LastRoot)
  /\ Cardinality(WipTree) >= 4
  /\ Len(walkLog) = 2 * Cardinality(WipTree)
  /\ \E f \in WipTree : fibers[f].sibling # None /\ fibers[f].child # None

\* ------------------------------------------- what reconcileChildren left
\* the fibers of the walk last started whose children were built by the diff
ReconciledParents == {p \in WipTree : Begun(p) /\ ~BailedOut(p)}

\* the new element sequence the fiber diffed: its props.children, or what its
\* render() returned
ElementsOf(p) ==
  IF fibers[p].tag = CLASS_COMPONENT
  THEN Arrify(classLog[CHOOSE k \in 1..Len(classLog) : classLog[k].fiber = p].elements)
  ELSE Arrify(fibers[p].props.children)

\* the old child chain the fiber diffed against
OldOf(p) ==
  IF fibers[p].alternate # None THEN Chain(fibers, fibers[fibers[p].alternate].child)
  ELSE <<>>

Reuses(p, i) ==
  i <= Len(OldOf(p)) /\ fibers[OldOf(p)[i]].type = ElementsOf(p)[i].type

\* C14: after the diff of k new elements against an old chain of n fibers the
\* parent has a chain of exactly k fibers in element order with the elements'
\* types and props. Fiber i is Update-tagged with the old fiber at i as alternate,
\* its stateNode and (until the fiber is begun) its partialState exactly when
\* i <= n and the types are equal; otherwise it is Placement-tagged with no
\* alternate and (until it is begun) no stateNode. Every old fiber whose position
\* has another type or no element is tagged Deletion and is in the parent's
\* effects exactly once; the old fibers that are reused are not in them.
C14_ReconcileChildrenPositional ==
  started # <<>> =>
    \A p \in ReconciledParents :
      LET els == ElementsOf(p)
          old == OldOf(p)
          new == NewChain(p)
      IN /\ Len(new) = Len(els)
         /\ \A i \in 1..Len(new) :
              LET f == fibers[new[i]]
              IN /\ f.type = els[i].type
                 /\ f.props = els[i].props
                 /\ f.parent = p
                 /\ IF Reuses(p, i)
                    THEN /\ f.effectTag = UPDATE
                         /\ f.alternate = old[i]
                         /\ f.stateNode = fibers[old[i]].stateNode
                         /\ f.tag = fibers[old[i]].tag
                         /\ ~Begun(new[i]) => f.partialState = fibers[old[i]].partialState
                    ELSE /\ f.effectTag = PLACEMENT
                         /\ f.alternate = None
                         /\ f.tag = IF IsString(f.type) THEN HOST_COMPONENT
                                    ELSE CLASS_COMPONENT
                         /\ ~Begun(new[i]) => f.stateNode = None
         /\ \A j \in 1..Len(old) :
              IF j <= Len(els) /\ Reuses(p, j)
              THEN Occurrences(fibers[p].effects, old[j]) = 0
              ELSE /\ fibers[old[j]].effectTag = DELETION
                   /\ Occurrences(fibers[p].effects, old[j]) = 1

C14_Witness ==
  /\ started # <<>>
  /\ \E p \in ReconciledParents :
       /\ Len(ElementsOf(p)) >= 2
       /\ Len(OldOf(p)) >= 2
       /\ \E i \in 1..Len(ElementsOf(p)) :
            Reuses(p, i) /\ fibers[NewChain(p)[i]].stateNode # None
       /\ \E i \in 1..Len(ElementsOf(p)) :
            /\ ~Reuses(p, i)
            /\ ~Begun(NewChain(p)[i])
            /\ fibers[OldOf(p)[i]].effectTag = DELETION

\* ------------------------------------------------ what a commit did
\* the nearest HostComponent fibers at or below a fiber, through class components
RECURSIVE HostDescendants(_, _)
HostDescendants(fs, fiber) ==
  IF fs[fiber].tag = HOST_COMPONENT THEN {fiber}
  ELSE UNION {HostDescendants(fs, c) : c \in Range(Chain(fs, fs[fiber].child))}

\* the host node commitWork takes as domParent for a fiber
DomParentOf(fiber) == fibers[DomParentFiber(fibers, fibers[fiber].parent)].stateNode

\* the fibers the last commit called commitDeletion for
DeletionsApplied ==
  {commitLog.applied[k].fiber : k \in {j \in 1..Len(commitLog.applied) :
                                         commitLog.applied[j].call = "commitDeletion"}}

\* C15: after the commit of a Deletion no nearest host descendant of the deleted
\* fiber is a child of the host parent any more, and a commit that ran to its end
\* leaves every host node of the new tree a child of its host parent.
C15_DeletionRemovesHostDescendants ==
  /\ \A d \in DeletionsApplied :
       \A h \in HostDescendants(fibers, d) :
         ~Contains(doms[DomParentOf(d)].children, fibers[h].stateNode)
  /\ (started # <<>> /\ IsCommitted(LastRoot) /\ commitLog.root = LastRoot)
       => \A h \in WipTree \ {LastRoot} :
            fibers[h].tag = HOST_COMPONENT
              => Contains(doms[DomParentOf(h)].children, fibers[h].stateNode)

\* C16: when a walk has finished, the root's effects hold only fibers that carry
\* an effect tag (Placement, Update or Deletion), and every fiber of the
\* work-in-progress tree that carries one is in them exactly once.
C16_EffectsAreTheTaggedFibers ==
  WalkDone =>
    /\ \A e \in Range(WalkEffects) :
         fibers[e].effectTag \in {PLACEMENT, UPDATE, DELETION}
    /\ \A f \in WipFibers :
         fibers[f].effectTag \in {PLACEMENT, UPDATE, DELETION}
           => Occurrences(WalkEffects, f) = 1

\* ------------------------------------------------ the order of the effects
IndexIn(seq, x) == CHOOSE i \in 1..Len(seq) : seq[i] = x
AppliedFibers == [k \in 1..Len(commitLog.applied) |-> commitLog.applied[k].fiber]
IsPrefix(s, t) == Len(s) <= Len(t) /\ \A i \in 1..Len(s) : s[i] = t[i]

\* the work-in-progress fibers in the effect list of the walk last finished
WipEffects == WipFibers \cap Range(WalkEffects)

\* a is in the subtree of an earlier sibling than the one b is under
EarlierBranch(a, b) ==
  \E p \in WipTree :
    LET chain == NewChain(p)
    IN \E i, j \in 1..Len(chain) :
         /\ i < j
         /\ a \in Subtree(fibers, chain[i])
         /\ b \in Subtree(fibers, chain[j])

\* C17: the effect list of a finished walk is in completion order: among its
\* work-in-progress fibers a descendant comes before its ancestor and the fibers
\* under an earlier sibling come before those under a later sibling; the commit
\* applies the effects in the order of the list, all of them when it runs to its
\* end.
C17_EffectsInCompletionOrder ==
  WalkDone =>
    /\ \A a, b \in WipEffects :
         /\ (a # b /\ a \in Subtree(fibers, b))
              => IndexIn(WalkEffects, a) < IndexIn(WalkEffects, b)
         /\ EarlierBranch(a, b)
              => IndexIn(WalkEffects, a) < IndexIn(WalkEffects, b)
    /\ commitLog.root = LastRoot => IsPrefix(AppliedFibers, WalkEffects)
    /\ IsCommitted(LastRoot) => (commitLog.root = LastRoot /\ AppliedFibers = WalkEffects)

C17_Witness ==
  /\ WalkDone
  /\ IsCommitted(LastRoot)
  /\ AppliedFibers = WalkEffects
  /\ \E a, b \in WipEffects : a # b /\ a \in Subtree(fibers, b)
  /\ \E a, b \in WipEffects : EarlierBranch(a, b)
  /\ \E k \in 1..Len(WalkEffects) : fibers[WalkEffects[k]].effectTag = DELETION

\* C18: every finished walk has been committed when its callback returns: its
\* root is the container's current tree and pendingCommit and nextUnitOfWork are
\* none, also for a walk that produced no effects.
C18_FinishedWalkIsCommitted ==
  (started # <<>> /\ nextUnitOfWork = None)
    => /\ IsCommitted(LastRoot)
       /\ rootContainerFiber = LastRoot
       /\ pendingCommit = None

\* C19: the commit calls updateDomProperties only for HostComponent fibers, so
\* that no component instance is ever handed to it, and a ClassComponent fiber
\* causes no host operation except the removal of its host descendants.
C19_HostOperationsOnlyOnHostNodes ==
  \A k \in 1..Len(commitLog.applied) :
    LET f == fibers[commitLog.applied[k].fiber]
        call == commitLog.applied[k].call
    IN /\ call = "updateDomProperties" => f.tag = HOST_COMPONENT
       /\ f.tag = CLASS_COMPONENT => call \in {"none", "commitDeletion"}
       /\ f.tag # HOST_ROOT

\* ------------------------------------------------ the outcome of a walk
\* the scheduler's state as the world a callback starts with
World ==
  [fibers |-> fibers, insts |-> insts, doms |-> doms, nextObj |-> nextObj,
   next |-> nextUnitOfWork, pendingCommit |-> pendingCommit,
   rcf |-> rootContainerFiber, committed |-> committed, classLog |-> classLog,
   mergeCount |-> mergeCount, walkLog |-> walkLog, commitLog |-> commitLog,
   err |-> "none"]

\* what the walk last started has produced
Outcome == OutcomeOf(World, LastRoot)

\* C20: the outcome of a walk does not depend on where it is suspended. However
\* the walk was cut into slices (with or without time, with requests enqueued in
\* between), once it is over the effect list, the fiber tree, the instances, the
\* current tree and the host tree are those of the same walk run to its end in
\* one slice.
C20_OutcomeIndependentOfSlicing ==
  (started # <<>> /\ nextUnitOfWork = None) => Outcome = predicted

\* a walk that was suspended at least twice, with a request enqueued in between,
\* and then committed changes to the host tree
C20_Witness ==
  /\ WalkDone
  /\ IsCommitted(LastRoot)
  /\ Len(started) = 2
  /\ Len(requests) = 3
  /\ Len(WalkEffects) >= 3
  /\ Outcome = predicted
  /\ slices = MaxSlices
  /\ \E k \in 1..Len(WalkEffects) : fibers[WalkEffects[k]].effectTag = DELETION

====
